---- MODULE Spec2Model ----
(***************************************************************************)
(* Model of sinker's docker package: the RegistryPath projections          *)
(* (Digest, Tag, Host, Repository), Status.GetMessage, NewClient and the   *)
(* stream consumer waitForScannerComplete.                                 *)
(*                                                                         *)
(* Go strings that the code takes apart (registry paths) are sequences of  *)
(* one-character strings; a status message is a sequence of words, so that *)
(* strings.Contains is a real substring search in both cases.              *)
(***************************************************************************)
EXTENDS Integers, Sequences, FiniteSets, TLC

\* ------------------------------------------------------------------ bounds
MaxLines == 27          \* lines one stream may deliver (single consumer)
MaxConcLines == 2       \* lines per stream when consumers are interleaved
NumInvocations == 2     \* concurrent per-image usages
MaxClients == 2         \* NewClient calls
MaxPathLen == 5         \* length of an enumerated registry path string

\* ------------------------------------------------------- program constants
SampleEvery == 25
RetryDelaySeconds == 5
RetryAttempts == 3

\* retry-go's package defaults before any NewClient call has replaced them
LibraryDefault == <<>>

\* ------------------------------------------------------------- strings ---
\* s[from..] of a sequence
Drop(s, n) == SubSeq(s, n + 1, Len(s))

Take(s, n) == SubSeq(s, 1, n)

\* strings.Index, 1-based; 0 when sub does not occur
Index(s, sub) ==
    IF Len(sub) > Len(s) THEN 0
    ELSE LET hits == {i \in 1..(Len(s) - Len(sub) + 1) :
                          SubSeq(s, i, i + Len(sub) - 1) = sub}
         IN IF hits = {} THEN 0
            ELSE CHOOSE i \in hits : \A j \in hits : i <= j

\* strings.Contains
Contains(s, sub) == Index(s, sub) # 0

RECURSIVE Split(_, _)
\* strings.Split for a non-empty separator
Split(s, sep) ==
    LET i == Index(s, sep)
    IN IF i = 0 THEN <<s>>
       ELSE <<Take(s, i - 1)>> \o Split(Drop(s, i - 1 + Len(sep)), sep)

RECURSIVE ReplaceAllEmpty(_, _)
\* strings.ReplaceAll(s, old, ""): every non-overlapping occurrence of old,
\* left to right, is deleted
ReplaceAllEmpty(s, old) ==
    IF old = <<>> THEN s
    ELSE LET i == Index(s, old)
         IN IF i = 0 THEN s
            ELSE Take(s, i - 1) \o ReplaceAllEmpty(Drop(s, i - 1 + Len(old)), old)

RECURSIVE TrimLeft(_, _)
\* strings.TrimLeft(s, cutset) for a one-character cutset
TrimLeft(s, c) ==
    IF s # <<>> /\ Head(s) = c THEN TrimLeft(Tail(s), c) ELSE s

\* ------------------------------------------------------- RegistryPath ---
Alphabet == {"a", "b", ".", "/", ":", "@"}

\* RegistryPath.Digest
Digest(r) ==
    IF ~Contains(r, <<"@">>) THEN <<>>
    ELSE LET digestTokens == Split(r, <<"@">>) IN digestTokens[2]

\* RegistryPath.Tag
Tag(r) ==
    IF Contains(r, <<"@">>) \/ ~Contains(r, <<":">>) THEN <<>>
    ELSE LET tagTokens == Split(r, <<":">>) IN tagTokens[2]

\* RegistryPath.Host
Host(r) ==
    LET host == IF Tag(r) # <<>> THEN ReplaceAllEmpty(r, <<":">> \o Tag(r)) ELSE r
    IN IF ~Contains(host, <<".">>) THEN <<>>
       ELSE LET hostTokens == Split(r, <<"/">>) IN hostTokens[1]

\* RegistryPath.Repository
Repository(r) ==
    LET r1 == IF Tag(r) # <<>> THEN ReplaceAllEmpty(r, <<":">> \o Tag(r)) ELSE r
        r2 == IF Digest(r) # <<>> THEN ReplaceAllEmpty(r1, <<"@">> \o Digest(r)) ELSE r1
        r3 == IF Host(r) # <<>> THEN ReplaceAllEmpty(r2, Host(r)) ELSE r2
    IN TrimLeft(r3, "/")

\* the four projections of one path string
Projections(r) ==
    [host |-> Host(r), repository |-> Repository(r), tag |-> Tag(r), digest |-> Digest(r)]

\* ------------------------------------------------------ Status record ---
PullingFrom == <<"Pulling", "from">>
ThePushRefersTo == <<"The", "push", "refers", "to">>

\* zero value of Status
ZeroStatus == [Message |-> <<>>, ID |-> "", ProgressDetail |-> [Current |-> 0, Total |-> 0]]

\* Status.GetMessage
GetMessage(s) ==
    IF Contains(s.Message, PullingFrom) \/ Contains(s.Message, ThePushRefersTo)
    THEN <<"Started">>
    ELSE IF s.ProgressDetail.Total > 0
         THEN <<"Processing ", s.ProgressDetail.Current, "B of ", s.ProgressDetail.Total, "B">>
         ELSE <<"Processing">>

\* ------------------------------------------------------ stream lines ---
\* One line of the stream.  wf = FALSE is a line that is not JSON at all.
\* A field of a JSON object is absent, of the wrong JSON type, or a value.
Value(v) == [k |-> "value", v |-> v]

Missing(zero) == [k |-> "absent", v |-> zero]

WrongType(zero) == [k |-> "badtype", v |-> zero]

MessageValues == { <<"Pulling", "from", "library/nginx">>, <<"Downloading">> }
CurrentValues == {5}
TotalValues == {0, 10}
ErrorValues == {"manifest unknown"}

MalformedLine ==
    [wf |-> FALSE, status |-> Missing(<<>>), id |-> Missing(""), current |-> Missing(0),
     total |-> Missing(0), error |-> Missing("")]

WellFormedLines ==
    [wf : {TRUE},
     status : {Value(m) : m \in MessageValues} \cup {Missing(<<>>), WrongType(<<>>)},
     id : {Missing("")},
     current : {Value(n) : n \in CurrentValues} \cup {Missing(0)},
     total : {Value(n) : n \in TotalValues} \cup {Missing(0)},
     error : {Value(e) : e \in ErrorValues} \cup {Missing(""), WrongType("")}]

Lines == WellFormedLines \cup {MalformedLine}

\* the lines offered to interleaved consumers
ConcLines ==
    { MalformedLine,
      [wf |-> TRUE, status |-> Value(<<"Downloading">>), id |-> Value("layer1"),
       current |-> Value(5), total |-> Value(10), error |-> Missing("")],
      [wf |-> TRUE, status |-> Value(<<"Pulling", "from", "library/nginx">>),
       id |-> Missing(""), current |-> Missing(0), total |-> Missing(0),
       error |-> Missing("")],
      [wf |-> TRUE, status |-> Value(<<"The", "push", "refers", "to", "repository">>),
       id |-> Missing(""), current |-> Missing(0), total |-> Missing(0),
       error |-> Missing("")],
      [wf |-> TRUE, status |-> Missing(<<>>), id |-> Missing(""), current |-> Missing(0),
       total |-> Missing(0), error |-> Value("manifest unknown")] }

\* decoding one field into a variable that already holds old
Decode(old, field) == IF field.k = "value" THEN field.v ELSE old

\* a decoder that lets a field of the wrong type pass
UnmarshalStatusErrLenient(line) == IF ~line.wf THEN "invalid character" ELSE ""

\* json.Unmarshal(line, &status): the error it returns ("" for nil)
UnmarshalStatusErr(line) ==
    IF ~line.wf THEN "invalid character"
    ELSE IF line.status.k = "badtype"
         THEN "cannot unmarshal number into Go struct field Status.status of type string"
         ELSE ""

\* json.Unmarshal(line, &status): the value left in status; a field the line
\* does not carry keeps what the variable held before
UnmarshalStatus(old, line) ==
    [Message |-> Decode(old.Message, line.status),
     ID |-> Decode(old.ID, line.id),
     ProgressDetail |->
        [Current |-> Decode(old.ProgressDetail.Current, line.current),
         Total |-> Decode(old.ProgressDetail.Total, line.total)]]

\* json.Unmarshal(line, &errorMessage): the error it returns ("" for nil)
UnmarshalErrorErr(line) ==
    IF ~line.wf THEN "invalid character"
    ELSE IF line.error.k = "badtype"
         THEN "cannot unmarshal number into Go struct field .error of type string"
         ELSE ""

\* json.Unmarshal(line, &errorMessage): the value left in errorMessage
UnmarshalError(old, line) == [Error |-> Decode(old.Error, line.error)]

\* the sampling test taken after the increment instead of before it
ShouldLogAfterIncrement(n) == (n + 1) % SampleEvery = 0

\* the sampling test of the loop body
ShouldLog(n) == n % SampleEvery = 0

\* logger.Printf("[%s] %s (%s)", command, image, msg)
ProgressLine(command, image, msg) == <<"[", command, "] ", image, " (", msg, ")">>

\* logger.Printf("[%s] %s complete.", command, image)
CompleteLine(command, image) == <<"[", command, "] ", image, " complete.">>

\* fmt.Errorf("<context>: %w", cause); nil is the empty sequence
Errorf(context, cause) == <<context, ": ", cause>>

NilError == <<>>

\* ---------------------------------------------------------------- state ---
VARIABLES
    procs,                \* the waitForScannerComplete invocations that run
    pc,                   \* per invocation: "scanning" or "returned"
    reads,                \* per invocation: lines clientScanner.Scan() delivered
    bytes,                \* per invocation: clientScanner.Bytes()
    scanErr,              \* per invocation: clientScanner.Err() ("" for nil)
    status,               \* per invocation: var status Status
    errorMessage,         \* per invocation: var errorMessage clientErrorMessage
    scans,                \* per invocation: var scans int
    logOut,               \* per invocation: what it printed to logger
    ret,                  \* per invocation: the returned error
    retryDefaultDelay,    \* retry.DefaultDelay (package variable of retry-go)
    retryDefaultAttempts, \* retry.DefaultAttempts (package variable of retry-go)
    clients,              \* results of the NewClient calls made so far
    path,                 \* a RegistryPath value
    ppc,                  \* "input", "parsed" or "reparsed"
    proj,                 \* the four projections of path
    rebuilt               \* the path put together again from proj

consumerVars == <<pc, reads, bytes, scanErr, status, errorMessage, scans, logOut, ret>>

clientVars == <<retryDefaultDelay, retryDefaultAttempts, clients>>

pathVars == <<path, ppc, proj, rebuilt>>

vars == <<procs, consumerVars, clientVars, pathVars>>

Invocations == 1..NumInvocations

\* the arguments of invocation i
Command(i) == "pull"

Image(i) == <<"image", i>>

\* how many lines a stream may deliver in the run at hand
LineBound == IF Cardinality(procs) > 1 THEN MaxConcLines ELSE MaxLines

\* the lines a stream may deliver in the run at hand
LineInputs == IF Cardinality(procs) > 1 THEN ConcLines ELSE Lines

NoProjections == [host |-> <<>>, repository |-> <<>>, tag |-> <<>>, digest |-> <<>>]

\* the locals of waitForScannerComplete at entry, and a scanner not yet read
InitConsumers ==
    /\ pc = [i \in Invocations |-> "scanning"]
    /\ reads = [i \in Invocations |-> 0]
    /\ bytes = [i \in Invocations |-> MalformedLine]
    /\ scanErr = [i \in Invocations |-> ""]
    /\ status = [i \in Invocations |-> ZeroStatus]
    /\ errorMessage = [i \in Invocations |-> [Error |-> ""]]
    /\ scans = [i \in Invocations |-> 0]
    /\ logOut = [i \in Invocations |-> <<>>]
    /\ ret = [i \in Invocations |-> NilError]

InitClients ==
    /\ retryDefaultDelay = LibraryDefault
    /\ retryDefaultAttempts = LibraryDefault
    /\ clients = <<>>

InitNoPath ==
    /\ path = <<>>
    /\ ppc = "none"
    /\ proj = NoProjections
    /\ rebuilt = <<>>

\* ---------------------------------------------- waitForScannerComplete ---
\* the error check left out: an error field never aborts
RemoteErrorIgnored(em) == FALSE

\* what the error check of the loop body decides
RemoteError(em) == em.Error # ""

\* one iteration of the for loop on the line just scanned: the new values of
\* the locals, the log and, when the iteration returns, the returned error
LoopBody(st, em, n, log, line, command, image) ==
    LET st1 == IF line.wf THEN UnmarshalStatus(st, line) ELSE st
        em1 == IF line.wf THEN UnmarshalError(em, line) ELSE em
    IN IF UnmarshalStatusErr(line) # ""
       THEN [status |-> st1, errorMessage |-> em, scans |-> n, log |-> log,
             returned |-> TRUE,
             err |-> Errorf("unmarshal status", UnmarshalStatusErr(line))]
       ELSE IF UnmarshalErrorErr(line) # ""
       THEN [status |-> st1, errorMessage |-> em1, scans |-> n, log |-> log,
             returned |-> TRUE,
             err |-> Errorf("unmarshal error", UnmarshalErrorErr(line))]
       ELSE IF RemoteError(em1)
       THEN [status |-> st1, errorMessage |-> em1, scans |-> n, log |-> log,
             returned |-> TRUE,
             err |-> Errorf("returned error", em1.Error)]
       ELSE [status |-> st1, errorMessage |-> em1, scans |-> n + 1,
             log |-> IF ShouldLog(n)
                     THEN Append(log, ProgressLine(command, image, GetMessage(st1)))
                     ELSE log,
             returned |-> FALSE,
             err |-> NilError]

\* the Err() check left out: the end of the loop always counts as completion
AfterLoopNoErrCheck(scannerErr, log, command, image) ==
    [err |-> NilError, log |-> Append(log, CompleteLine(command, image))]

\* the code after the loop: the returned error and the log
AfterLoop(scannerErr, log, command, image) ==
    IF scannerErr # ""
    THEN [err |-> Errorf("scanner", scannerErr), log |-> log]
    ELSE [err |-> NilError, log |-> Append(log, CompleteLine(command, image))]

\* clientScanner.Scan() delivers a line and the loop body runs on it
ProcessLine(i, line) ==
    /\ pc[i] = "scanning"
    /\ reads[i] < LineBound
    /\ LET r == LoopBody(status[i], errorMessage[i], scans[i], logOut[i], line,
                         Command(i), Image(i))
       IN /\ reads' = [reads EXCEPT ![i] = @ + 1]
          /\ bytes' = [bytes EXCEPT ![i] = line]
          /\ status' = [status EXCEPT ![i] = r.status]
          /\ errorMessage' = [errorMessage EXCEPT ![i] = r.errorMessage]
          /\ scans' = [scans EXCEPT ![i] = r.scans]
          /\ logOut' = [logOut EXCEPT ![i] = r.log]
          /\ ret' = [ret EXCEPT ![i] = r.err]
          /\ pc' = [pc EXCEPT ![i] = IF r.returned THEN "returned" ELSE "scanning"]
    /\ UNCHANGED <<procs, scanErr, clientVars, pathVars>>

\* clientScanner.Scan() returns false at the end of the input, Err() is nil
ScanEOF(i) ==
    /\ pc[i] = "scanning"
    /\ LET r == AfterLoop(scanErr[i], logOut[i], Command(i), Image(i))
       IN /\ logOut' = [logOut EXCEPT ![i] = r.log]
          /\ ret' = [ret EXCEPT ![i] = r.err]
    /\ pc' = [pc EXCEPT ![i] = "returned"]
    /\ UNCHANGED <<procs, reads, bytes, scanErr, status, errorMessage, scans,
                   clientVars, pathVars>>

\* clientScanner.Scan() returns false because reading failed, Err() is set
ScanFails(i) ==
    /\ pc[i] = "scanning"
    /\ scanErr' = [scanErr EXCEPT ![i] = "unexpected EOF"]
    /\ LET r == AfterLoop(scanErr'[i], logOut[i], Command(i), Image(i))
       IN /\ logOut' = [logOut EXCEPT ![i] = r.log]
          /\ ret' = [ret EXCEPT ![i] = r.err]
    /\ pc' = [pc EXCEPT ![i] = "returned"]
    /\ UNCHANGED <<procs, reads, bytes, status, errorMessage, scans,
                   clientVars, pathVars>>

\* ------------------------------------------------------------ NewClient ---
\* NewClient: sets the retry defaults, then builds the engine client, which
\* succeeds or fails
NewClient(ok) ==
    /\ Len(clients) < MaxClients
    /\ retryDefaultDelay' = <<RetryDelaySeconds>>
    /\ retryDefaultAttempts' = <<RetryAttempts>>
    /\ clients' = Append(clients, IF ok THEN <<"Client">>
                                  ELSE Errorf("new docker client", "cannot connect"))
    /\ UNCHANGED <<procs, consumerVars, pathVars>>

\* ------------------------------------------------ one stream consumer ---
Init ==
    /\ procs = {1}
    /\ InitConsumers
    /\ InitClients
    /\ InitNoPath

Next ==
    \/ \E line \in LineInputs : ProcessLine(1, line)
    \/ ScanEOF(1)
    \/ ScanFails(1)

Spec == Init /\ [][Next]_vars

\* ------------------------------------------- interleaved per-image usages ---
InitConc ==
    /\ procs = Invocations
    /\ InitConsumers
    /\ InitClients
    /\ InitNoPath

NextConc ==
    \/ \E i \in procs : \E line \in LineInputs : ProcessLine(i, line)
    \/ \E i \in procs : ScanEOF(i)
    \/ \E i \in procs : ScanFails(i)
    \/ \E ok \in BOOLEAN : NewClient(ok)

SpecConc == InitConc /\ [][NextConc]_vars

\* ------------------------------------------------- registry path values ---
RECURSIVE StringsOfLen(_)
\* all strings of exactly n characters of Alphabet
StringsOfLen(n) ==
    IF n = 0 THEN { <<>> }
    ELSE { Append(s, c) : s \in StringsOfLen(n - 1), c \in Alphabet }

PathInputs == UNION { StringsOfLen(n) : n \in 0..MaxPathLen }

\* a path string put together from four projections and the separators
Rebuild(pr) ==
    (IF pr.host # <<>> THEN pr.host \o <<"/">> ELSE <<>>)
    \o pr.repository
    \o (IF pr.tag # <<>> THEN <<":">> \o pr.tag ELSE <<>>)
    \o (IF pr.digest # <<>> THEN <<"@">> \o pr.digest ELSE <<>>)

InitPath ==
    /\ procs = {}
    /\ InitConsumers
    /\ InitClients
    /\ path \in PathInputs
    /\ ppc = "input"
    /\ proj = NoProjections
    /\ rebuilt = <<>>

\* the caller takes the four projections of path
Parse ==
    /\ ppc = "input"
    /\ proj' = Projections(path)
    /\ ppc' = "parsed"
    /\ UNCHANGED <<procs, consumerVars, clientVars, path, rebuilt>>

\* the caller puts a path together from the projections
Reassemble ==
    /\ ppc = "parsed"
    /\ rebuilt' = Rebuild(proj)
    /\ ppc' = "reparsed"
    /\ UNCHANGED <<procs, consumerVars, clientVars, path, proj>>

NextPath == Parse \/ Reassemble

SpecPath == InitPath /\ [][NextPath]_vars

\* ======================================================================
\* Properties of waitForScannerComplete (invocation 1 of Spec)
\* ======================================================================
Returned == pc[1] = "returned"

IsCompleteLine(l) == l = CompleteLine(Command(1), Image(1))

IsProgressLine(l) == Len(l) = 7 /\ l = ProgressLine(Command(1), Image(1), l[6])

NumComplete(log) == Cardinality({k \in DOMAIN log : IsCompleteLine(log[k])})

NumProgress(log) == Cardinality({k \in DOMAIN log : IsProgressLine(log[k])})

CeilDiv(n, d) == (n + d - 1) \div d

\* both decodes of the line succeed
Decodable(line) == line.wf /\ line.status.k # "badtype" /\ line.error.k # "badtype"

\* the line carries a non-empty "error" field
CarriesError(line) == line.error.k = "value" /\ line.error.v # ""

\* the returned error is one of the two decode failures
IsDecodeFailure(e) == e # NilError /\ e[1] \in {"unmarshal status", "unmarshal error"}

\* once the function has returned, nothing of the invocation changes: no
\* later line is read and nothing more is logged
NoStepAfterReturn == [][Returned => UNCHANGED consumerVars]_vars

\* C1: when a line that decodes successfully carries a non-empty "error"
\* field, consumption aborts at that line (so at the first such line): all
\* earlier lines were processed, the returned error is non-nil and holds the
\* line's error text verbatim, no completion line is emitted, and no later
\* line is read.
C1_AbortState ==
    (reads[1] > 0 /\ Decodable(bytes[1]) /\ CarriesError(bytes[1])) =>
        /\ Returned
        /\ ret[1] # NilError
        /\ ret[1] = Errorf("returned error", bytes[1].error.v)
        /\ \E k \in DOMAIN ret[1] : ret[1][k] = bytes[1].error.v
        /\ scans[1] = reads[1] - 1
        /\ NumComplete(logOut[1]) = 0

C1_RemoteErrorAborts == [](C1_AbortState) /\ NoStepAfterReturn

C1_Witness ==
    /\ Returned
    /\ reads[1] = 4
    /\ bytes[1].error = Value("manifest unknown")
    /\ ret[1] = Errorf("returned error", "manifest unknown")
    /\ NumComplete(logOut[1]) = 0

\* the terminal outcome a returned error stands for
Outcome(e) ==
    IF e = NilError THEN "Success"
    ELSE IF e[1] \in {"unmarshal status", "unmarshal error"} THEN "DecodeFailure"
    ELSE IF e[1] = "returned error" THEN "RemoteError"
    ELSE IF e[1] = "scanner" THEN "StreamIOFailure"
    ELSE "none"

\* C2: a run ends in exactly one of Success, DecodeFailure, RemoteError and
\* StreamIOFailure and does nothing after it; the completion line is logged
\* exactly once, as the last log line, exactly when the outcome is Success
\* (nil after a clean end of input with every line processed); a scanner
\* I/O error after any number of valid lines gives the error wrapped with
\* "scanner" and no completion line.
C2_OutcomeState ==
    /\ Returned =>
          Outcome(ret[1]) \in {"Success", "DecodeFailure", "RemoteError", "StreamIOFailure"}
    /\ NumComplete(logOut[1]) = IF Returned /\ Outcome(ret[1]) = "Success" THEN 1 ELSE 0
    /\ NumComplete(logOut[1]) = 1 => IsCompleteLine(logOut[1][Len(logOut[1])])
    /\ (Returned /\ Outcome(ret[1]) = "Success") =>
          scanErr[1] = "" /\ scans[1] = reads[1]
    /\ scanErr[1] # "" =>
          /\ Returned
          /\ ret[1] = Errorf("scanner", scanErr[1])
          /\ scans[1] = reads[1]
    /\ ~Returned => ret[1] = NilError /\ scans[1] = reads[1]

C2_TerminalOutcomes == [](C2_OutcomeState) /\ NoStepAfterReturn

C2_Witness ==
    /\ Returned
    /\ scanErr[1] # ""
    /\ reads[1] = 3
    /\ Outcome(ret[1]) = "StreamIOFailure"
    /\ logOut[1] # <<>>
    /\ NumComplete(logOut[1]) = 0

\* the context of the decode failure the line causes
DecodeContext(line) ==
    IF ~line.wf \/ line.status.k = "badtype" THEN "unmarshal status" ELSE "unmarshal error"

\* C3: when line k is not decodable (not JSON, or a field of the wrong
\* shape) and all earlier lines were valid and error-free, the function
\* aborts at line k with a decode failure ("unmarshal status" or "unmarshal
\* error"), logs no progress for line k and no completion line, also when
\* the same line carries an error field; no line after k is read.
C3_AbortState ==
    (reads[1] > 0 /\ ~Decodable(bytes[1])) =>
        /\ Returned
        /\ IsDecodeFailure(ret[1])
        /\ ret[1][1] = DecodeContext(bytes[1])
        /\ scans[1] = reads[1] - 1
        /\ NumProgress(logOut[1]) = CeilDiv(reads[1] - 1, SampleEvery)
        /\ Len(logOut[1]) = NumProgress(logOut[1])

C3_DecodeFailureAborts == [](C3_AbortState) /\ NoStepAfterReturn

C3_Witness ==
    /\ Returned
    /\ reads[1] = SampleEvery + 1
    /\ bytes[1].status.k = "badtype"
    /\ CarriesError(bytes[1])
    /\ ret[1][1] = "unmarshal status"
    /\ Len(logOut[1]) = 1

\* the line counter goes up by exactly one per processed line
CountsEveryLine ==
    [][(reads'[1] # reads[1] /\ pc'[1] = "scanning") =>
          (reads'[1] = reads[1] + 1 /\ scans'[1] = scans[1] + 1)]_vars

\* C4: over valid, error-free lines a progress line is logged exactly for
\* the zero-based indices that are multiples of 25, so that after n lines
\* there are ceil(n/25) of them, all before the single completion line that
\* a clean end of input adds; the line counter goes up by one per line.
\* 26 lines give 2 progress lines and the completion line, 0 lines give
\* the completion line alone.
C4_SamplingState ==
    (~Returned \/ ret[1] = NilError) =>
        /\ scans[1] = reads[1]
        /\ NumProgress(logOut[1]) = CeilDiv(scans[1], SampleEvery)
        /\ \A k \in 1..NumProgress(logOut[1]) : IsProgressLine(logOut[1][k])
        /\ Len(logOut[1]) = NumProgress(logOut[1]) + (IF Returned THEN 1 ELSE 0)
        /\ Returned => IsCompleteLine(logOut[1][Len(logOut[1])])
        /\ (Returned /\ scans[1] = 26) => Len(logOut[1]) = 3
        /\ (Returned /\ scans[1] = 0) => logOut[1] = <<CompleteLine(Command(1), Image(1))>>

C4_ProgressSampling == [](C4_SamplingState) /\ CountsEveryLine

C4_Witness ==
    /\ Returned
    /\ ret[1] = NilError
    /\ scans[1] = 26
    /\ NumProgress(logOut[1]) = 2
    /\ Len(logOut[1]) = 3

\* a Status constructed from one line alone
FreshStatus(line) == UnmarshalStatus(ZeroStatus, line)

\* C5: the message of every sampled progress line is GetMessage of a Status
\* built from the just-read line alone, absent fields being zero, whatever
\* the earlier lines held.
C5_FreshStatusPerLine ==
    (pc[1] = "scanning" /\ scans[1] > 0 /\ ShouldLog(scans[1] - 1)) =>
        logOut[1][Len(logOut[1])] =
            ProgressLine(Command(1), Image(1), GetMessage(FreshStatus(bytes[1])))

\* ======================================================================
\* Properties of the usages running side by side (SpecConc)
\* ======================================================================
\* C10: independent per-image usages share no mutable state: no NewClient
\* call and no waitForScannerComplete step writes a variable that other
\* invocations can see, and a step of one consumer leaves the locals, the
\* log and the result of every other consumer alone.
C10_NoSharedMutableState ==
    [][/\ UNCHANGED <<retryDefaultDelay, retryDefaultAttempts>>
       /\ \A i, j \in procs :
             (i # j /\ reads'[i] # reads[i]) =>
                 /\ scans'[j] = scans[j]
                 /\ status'[j] = status[j]
                 /\ errorMessage'[j] = errorMessage[j]
                 /\ logOut'[j] = logOut[j]
                 /\ ret'[j] = ret[j]]_vars

\* ======================================================================
\* Properties of the RegistryPath projections (SpecPath)
\* ======================================================================
Parsed == ppc \in {"parsed", "reparsed"}

\* the text strictly after the first occurrence of the character c
AfterFirst(s, c) == Drop(s, Index(s, <<c>>))

\* the text before the first occurrence of the character c
BeforeFirst(s, c) == Take(s, Index(s, <<c>>) - 1)

HasSuffix(s, suf) == Len(suf) <= Len(s) /\ Drop(s, Len(s) - Len(suf)) = suf

HasPrefix(s, pre) == Len(pre) <= Len(s) /\ Take(s, Len(pre)) = pre

\* s without the suffix suf, s itself when it does not end in suf
TrimSuffix(s, suf) == IF HasSuffix(s, suf) THEN Take(s, Len(s) - Len(suf)) ELSE s

\* s without the prefix pre, s itself when it does not start with pre
TrimPrefix(s, pre) == IF HasPrefix(s, pre) THEN Drop(s, Len(pre)) ELSE s

\* C6: digest precedence: a path with an '@' has an empty Tag and its Digest
\* is the whole text after the first '@', later ':' and '@' included; a path
\* without '@' has an empty Digest.
C6_DigestPrecedence ==
    Parsed =>
        IF Contains(path, <<"@">>)
        THEN proj.tag = <<>> /\ proj.digest = AfterFirst(path, "@")
        ELSE proj.digest = <<>>

\* the first '/'-segment of the path once its tag suffix is taken off
FirstSegmentUntagged(r, tag) ==
    LET untagged == IF tag # <<>> THEN TrimSuffix(r, <<":">> \o tag) ELSE r
    IN Split(untagged, <<"/">>)[1]

\* C7: Host is the first '/'-segment of the original string when the first
\* segment of the tag-stripped string contains a '.', and is empty when that
\* first segment has no '.', also when a later segment has one.
C7_HostFromFirstSegment ==
    Parsed =>
        IF Contains(FirstSegmentUntagged(path, proj.tag), <<".">>)
        THEN proj.host = Split(path, <<"/">>)[1]
        ELSE proj.host = <<>>

\* the path with each component taken off at its own position only
RepositoryByPosition(r, pr) ==
    LET r1 == IF pr.tag # <<>> THEN TrimSuffix(r, <<":">> \o pr.tag) ELSE r
        r2 == IF pr.digest # <<>> THEN TrimSuffix(r1, <<"@">> \o pr.digest) ELSE r1
        r3 == IF pr.host # <<>> THEN TrimPrefix(r2, pr.host) ELSE r2
    IN TrimLeft(r3, "/")

\* C8: Repository is the path with ":"+Tag removed as a suffix, "@"+Digest
\* removed as a suffix, Host removed as a prefix and the leading '/'
\* trimmed; every other part of the path stays as it is.
C8_RepositoryStripsInPlace ==
    Parsed => proj.repository = RepositoryByPosition(path, proj)

Letters == {"a", "b"}

\* a name component: letters, single dots only between letters
IsComponent(s) ==
    /\ s # <<>>
    /\ \A k \in DOMAIN s : s[k] \in Letters \cup {"."}
    /\ s[1] \in Letters /\ s[Len(s)] \in Letters
    /\ \A k \in 1..(Len(s) - 1) : ~(s[k] = "." /\ s[k + 1] = ".")

\* [host/]repository: components separated by single '/'
IsName(s) == \A k \in DOMAIN Split(s, <<"/">>) : IsComponent(Split(s, <<"/">>)[k])

\* algorithm ':' hex
IsDigest(s) ==
    /\ Contains(s, <<":">>)
    /\ BeforeFirst(s, ":") # <<>> /\ AfterFirst(s, ":") # <<>>
    /\ \A k \in DOMAIN BeforeFirst(s, ":") : BeforeFirst(s, ":")[k] \in Letters
    /\ \A k \in DOMAIN AfterFirst(s, ":") : AfterFirst(s, ":")[k] \in Letters

\* [host/]repository[:tag] or [host/]repository[@digest], no host:port
WellFormed(r) ==
    IF Contains(r, <<"@">>)
    THEN IsName(BeforeFirst(r, "@")) /\ IsDigest(AfterFirst(r, "@"))
    ELSE IF Contains(r, <<":">>)
    THEN IsName(BeforeFirst(r, ":")) /\ IsComponent(AfterFirst(r, ":"))
    ELSE IsName(r)

\* C9: round trip: for a well-formed path, the path put together again from
\* Host, Repository, Tag and Digest has the same four projections.
C9_RoundTrip ==
    (ppc = "reparsed" /\ WellFormed(path)) => Projections(rebuilt) = proj

====
